---- MODULE Spec2Model ----
(***************************************************************************)
(* Model of pkg/business/svc/pfsense.go: the pfsense unbound host-override *)
(* reconciliation (ApplyChanges), the endpoint <-> host mapping and the    *)
(* name splitter/joiner.                                                   *)
(*                                                                         *)
(* A Go string that the code splits or counts dots in (DNS names, host    *)
(* labels, domains) is a sequence of tokens; the token "." is the dot and  *)
(* every other token is a dot-free run of characters.  Strings the code    *)
(* only copies (ip addresses, targets, label values) are TLA+ strings.     *)
(***************************************************************************)
EXTENDS Integers, Sequences, FiniteSets, TLC

\* ------------------------------------------------------------------ bounds
\* longest host list the remote store starts with
MaxHosts == 2
\* most endpoints one ApplyChanges call carries, over its three lists
MaxChanges == 2
\* most endpoints a call carries when two calls run concurrently
MaxConcChanges == 1
\* how often a finished call is re-invoked with the same lists
MaxRetries == 1

\* ----------------------------------------------------------- Go strings
Dot == "."

\* strings.Count(s, ".")
RECURSIVE Count(_)
Count(s) ==
  IF s = <<>> THEN 0
  ELSE (IF Head(s) = Dot THEN 1 ELSE 0) + Count(Tail(s))

\* index of the first "." of s, 0 when there is none
RECURSIVE FirstDot(_, _)
FirstDot(s, i) ==
  IF i > Len(s) THEN 0
  ELSE IF s[i] = Dot THEN i
  ELSE FirstDot(s, i + 1)

\* strings.SplitN(s, ".", 2)
SplitN2(s) ==
  LET i == FirstDot(s, 1) IN
  IF i = 0 THEN << s >>
  ELSE << SubSeq(s, 1, i - 1), SubSeq(s, i + 1, Len(s)) >>

\* names of four or more labels refused as well
ExplodeHostNameFailsDeep(hostName) == Count(hostName) = 0 \/ Count(hostName) >= 3

\* pfsenseService.explodeHostName: error result
ExplodeHostNameFails(hostName) ==
  /\ Count(hostName) # 1
  /\ Len(SplitN2(hostName)) # 2

\* the split at the first dot, without the one-dot case
explodeHostNameAlwaysSplit(hostName) ==
  LET parts == SplitN2(hostName) IN
  [Host |-> parts[1], Domain |-> parts[2]]

\* pfsenseService.explodeHostName: (host, domain) when it does not fail
explodeHostName(hostName) ==
  IF Count(hostName) = 1 THEN [Host |-> <<>>, Domain |-> hostName]
  ELSE LET parts == SplitN2(hostName) IN
       [Host |-> parts[1], Domain |-> parts[2]]

\* pfsenseService.buildDNSName: error result
BuildDNSNameFails(hostLabel, domain) == Count(hostLabel) # 0

\* the join done for an empty host too
buildDNSNameAlwaysJoin(hostLabel, domain) ==
  IF BuildDNSNameFails(hostLabel, domain) THEN <<>>
  ELSE hostLabel \o << Dot >> \o domain

\* pfsenseService.buildDNSName: the name returned ("" together with an error)
buildDNSName(hostLabel, domain) ==
  IF BuildDNSNameFails(hostLabel, domain) THEN <<>>
  ELSE IF hostLabel # <<>> THEN hostLabel \o << Dot >> \o domain
  ELSE domain

\* ------------------------------------------------- endpoints and hosts
\* a DNS name / host label / domain as a token sequence
NameAXCom == << "a", Dot, "x", Dot, "com" >>
NameBXCom == << "b", Dot, "x", Dot, "com" >>
DomainXCom == << "x", Dot, "com" >>
EmptyString == << >>

\* a nil / empty map[string]string
NoLabels == << >>

\* svc.UnboundEndpoint values the calls are invoked with
EpA1 == [DNSName |-> NameAXCom, Targets |-> << "1.1.1.1" >>, Labels |-> NoLabels, RecordType |-> "A"]
EpA2 == [DNSName |-> NameAXCom, Targets |-> << "2.2.2.2" >>, Labels |-> NoLabels, RecordType |-> "A"]
EpB == [DNSName |-> NameBXCom, Targets |-> << "3.3.3.3" >>, Labels |-> NoLabels, RecordType |-> "A"]
\* a pointer field of externaldnsapi.Endpoint: nil or set
NilPtr == [set |-> FALSE]
Ptr(v) == [set |-> TRUE, val |-> v]

\* integration.FromPtr(p, def)
FromPtr(p, def) == IF p.set THEN p.val ELSE def

\* controller.asUnboundEndpoint; it returns no error
asUnboundEndpoint(endpoint) ==
  [DNSName |-> FromPtr(endpoint.DnsName, EmptyString),
   Targets |-> FromPtr(endpoint.Targets, << >>),
   RecordType |-> FromPtr(endpoint.RecordType, ""),
   Labels |-> endpoint.Labels]

\* asUnboundEndpoint maps a missing dnsName to ""
EpNoName ==
  asUnboundEndpoint([DnsName |-> NilPtr, Targets |-> Ptr(<< "4.4.4.4" >>),
                     RecordType |-> Ptr("A"), Labels |-> NoLabels])

\* an A endpoint with two targets, which endpointToHost refuses
EpTwoTargets == [DNSName |-> NameBXCom, Targets |-> << "1.1.1.1", "2.2.2.2" >>,
                 Labels |-> NoLabels, RecordType |-> "A"]

Endpoints == { EpA1, EpA2, EpB, EpNoName, EpTwoTargets }
\* what each of two concurrent callers asks for
ConcEndpoints(c) == IF c = 1 THEN { EpA1 } ELSE { EpB }

\* the description of a host override:
\*   kind "empty"    the empty string
\*   kind "text"     free text that does not start with "{"
\*   kind "base64"   the base64 encoding of a JSON object (never starts with "{")
\*   kind "json"     a JSON object; fields maps each key present to its value
\*   kind "badjson"  text that starts with "{" and is not a JSON object that
\*                   fits UnboundEndpoint, such as {&quot;dnsName&quot;: ...
NoFields == << >>
EmptyDescr == [kind |-> "empty", fields |-> NoFields]

\* the labels field left out of the serialization
MarshalEndpointNoLabels(endpoint) ==
  LET keys == {"dnsName", "recordType"}
              \cup (IF Len(endpoint.Targets) > 0 THEN {"targets"} ELSE {})
  IN [kind |-> "json",
      fields |-> [k \in keys |->
                    CASE k = "dnsName" -> endpoint.DNSName
                      [] k = "recordType" -> endpoint.RecordType
                      [] k = "targets" -> endpoint.Targets]]

\* json.Marshal(endpoint) with the struct tags of UnboundEndpoint:
\* targets and labels carry omitempty, dnsName and recordType do not
MarshalEndpoint(endpoint) ==
  LET keys == {"dnsName", "recordType"}
              \cup (IF Len(endpoint.Targets) > 0 THEN {"targets"} ELSE {})
              \cup (IF DOMAIN endpoint.Labels # {} THEN {"labels"} ELSE {})
  IN [kind |-> "json",
      fields |-> [k \in keys |->
                    CASE k = "dnsName" -> endpoint.DNSName
                      [] k = "recordType" -> endpoint.RecordType
                      [] k = "targets" -> endpoint.Targets
                      [] k = "labels" -> endpoint.Labels]]

\* an A record accepted with any positive number of targets
EndpointToHostFailsFirstTarget(endpoint) ==
  \/ endpoint.RecordType \notin {"A", "TXT"}
  \/ ExplodeHostNameFails(endpoint.DNSName)
  \/ (endpoint.RecordType = "A" /\ Len(endpoint.Targets) < 1)

\* pfsenseService.endpointToHost: error result
EndpointToHostFails(endpoint) ==
  \/ endpoint.RecordType \notin {"A", "TXT"}
  \/ ExplodeHostNameFails(endpoint.DNSName)
  \/ (endpoint.RecordType = "A" /\ Len(endpoint.Targets) # 1)

\* pfsenseService.endpointToHost: the host returned when it does not fail
endpointToHost(endpoint) ==
  LET name == explodeHostName(endpoint.DNSName) IN
  [Host |-> name.Host,
   Domain |-> name.Domain,
   Ip |-> IF endpoint.RecordType = "A" THEN endpoint.Targets[1] ELSE "127.0.0.1",
   Descr |-> MarshalEndpoint(endpoint),
   Aliases |-> ""]

\* the test without strings.HasPrefix: every non-empty description is parsed
LooksLikeJSONNonEmpty(descr) == descr.kind # "empty"

\* host.Descr != "" && strings.HasPrefix(host.Descr, "{")
LooksLikeJSON(descr) == descr.kind # "empty" /\ descr.kind \in {"json", "badjson"}

\* json.Unmarshal([]byte(host.Descr), &endpoint): error result
UnmarshalFails(descr) == descr.kind # "json"

\* json.Unmarshal into a zero UnboundEndpoint: a key that is absent leaves
\* the zero value ("" or nil) in its field
UnmarshalEndpoint(descr) ==
  LET has(k) == k \in DOMAIN descr.fields IN
  [DNSName |-> IF has("dnsName") THEN descr.fields["dnsName"] ELSE << >>,
   Targets |-> IF has("targets") THEN descr.fields["targets"] ELSE << >>,
   Labels |-> IF has("labels") THEN descr.fields["labels"] ELSE << >>,
   RecordType |-> IF has("recordType") THEN descr.fields["recordType"] ELSE ""]

\* pfsenseService.hostToEndpoint: error result
HostToEndpointFails(h) ==
  \/ BuildDNSNameFails(h.Host, h.Domain)
  \/ (LooksLikeJSON(h.Descr) /\ UnmarshalFails(h.Descr))

\* pfsenseService.hostToEndpoint: the endpoint returned when it does not fail
hostToEndpoint(h) ==
  LET dnsName == buildDNSName(h.Host, h.Domain) IN
  IF LooksLikeJSON(h.Descr)
  THEN LET endpoint == UnmarshalEndpoint(h.Descr) IN
       [DNSName |-> dnsName,
        Targets |-> endpoint.Targets,
        Labels |-> endpoint.Labels,
        RecordType |-> IF endpoint.RecordType # "" THEN endpoint.RecordType ELSE "A"]
  ELSE [DNSName |-> dnsName,
        Targets |-> << h.Ip >>,
        Labels |-> << >>,
        RecordType |-> "A"]

\* host overrides found in the store that this program did not write
HostA == [Host |-> << "a" >>, Domain |-> DomainXCom, Ip |-> "1.1.1.1", Descr |-> EmptyDescr, Aliases |-> ""]
HostB == [Host |-> << "b" >>, Domain |-> DomainXCom, Ip |-> "3.3.3.3", Descr |-> EmptyDescr, Aliases |-> ""]
\* a hand-authored override whose host field holds two labels
HostDotted == [Host |-> << "a", Dot, "b" >>, Domain |-> DomainXCom, Ip |-> "5.5.5.5",
               Descr |-> [kind |-> "text", fields |-> NoFields], Aliases |-> ""]

StoredHosts == { HostA, HostB, HostDotted }

\* ------------------------------------------------------ the reconciler
\* the closure with || in place of &&
MatchesExistingEither(existingHost, endpoint) ==
  LET failed == BuildDNSNameFails(existingHost.Host, existingHost.Domain)
      existingDNS == buildDNSName(existingHost.Host, existingHost.Domain)
  IN failed \/ existingDNS = endpoint.DNSName

\* the closure passed to slices.ContainsFunc / slices.IndexFunc
MatchesExisting(existingHost, endpoint) ==
  LET failed == BuildDNSNameFails(existingHost.Host, existingHost.Domain)
      existingDNS == buildDNSName(existingHost.Host, existingHost.Domain)
  IN failed /\ existingDNS = endpoint.DNSName

\* slices.IndexFunc over the closure: first matching index, 0 for -1
RECURSIVE IndexFunc(_, _, _)
IndexFunc(endpoints, existingHost, i) ==
  IF i > Len(endpoints) THEN 0
  ELSE IF MatchesExisting(existingHost, endpoints[i]) THEN i
  ELSE IndexFunc(endpoints, existingHost, i + 1)

\* slices.ContainsFunc over the closure
ContainsFunc(endpoints, existingHost) == IndexFunc(endpoints, existingHost, 1) # 0

\* append(toCreate[:createIndex], toCreate[createIndex+1:]...)
RemoveAt(list, i) == SubSeq(list, 1, i - 1) \o SubSeq(list, i + 1, Len(list))

\* integration.MapSliceErr(list, endpointToHost): error result
MapSliceErrFails(list) == \E i \in 1..Len(list) : EndpointToHostFails(list[i])

\* integration.MapSliceErr(list, endpointToHost): the mapped slice
MapSliceErr(list) == [i \in 1..Len(list) |-> endpointToHost(list[i])]

\* the created hosts put in front of the kept ones
AppendCreatedInFront(finalHosts, hostsToCreate) == hostsToCreate \o finalHosts

\* finalHosts = append(finalHosts, hostsToCreate...)
AppendCreated(finalHosts, hostsToCreate) == finalHosts \o hostsToCreate

\* the loop over section.Hosts of ApplyChanges, from index i on;
\* st carries finalHosts, the shrinking toCreate and the error flag
RECURSIVE ReconcileLoop(_, _, _, _, _)
ReconcileLoop(hosts, i, st, toUpdate, toDelete) ==
  IF i > Len(hosts) THEN st
  ELSE
    LET existingHost == hosts[i] IN
    IF ContainsFunc(toDelete, existingHost)
    THEN ReconcileLoop(hosts, i + 1, st, toUpdate, toDelete)
    ELSE
      LET updateIndex == IndexFunc(toUpdate, existingHost, 1) IN
      IF updateIndex # 0 /\ EndpointToHostFails(toUpdate[updateIndex])
      THEN [st EXCEPT !.err = TRUE]
      ELSE
        LET kept == IF updateIndex # 0 THEN endpointToHost(toUpdate[updateIndex])
                    ELSE existingHost
            createIndex == IndexFunc(st.toCreate, kept, 1)
        IN ReconcileLoop(hosts, i + 1,
                         [err |-> FALSE,
                          finalHosts |-> Append(st.finalHosts, kept),
                          toCreate |-> IF createIndex # 0
                                       THEN RemoveAt(st.toCreate, createIndex)
                                       ELSE st.toCreate],
                         toUpdate, toDelete)

\* the creates that cannot be converted left out instead of failing the call
ReconcileDroppingInvalid(hosts, toCreate, toUpdate, toDelete) ==
  LET st == ReconcileLoop(hosts, 1,
                          [err |-> FALSE, finalHosts |-> << >>, toCreate |-> toCreate],
                          toUpdate, toDelete)
      valid == SelectSeq(st.toCreate, LAMBDA e : ~EndpointToHostFails(e))
  IN IF st.err
     THEN [err |-> TRUE, finalHosts |-> << >>, toCreate |-> st.toCreate]
     ELSE [err |-> FALSE,
           finalHosts |-> AppendCreated(st.finalHosts, MapSliceErr(valid)),
           toCreate |-> st.toCreate]

\* the reconciliation of ApplyChanges between the fetch and the dry-run test
Reconcile(hosts, toCreate, toUpdate, toDelete) ==
  LET st == ReconcileLoop(hosts, 1,
                          [err |-> FALSE, finalHosts |-> << >>, toCreate |-> toCreate],
                          toUpdate, toDelete)
  IN IF st.err \/ MapSliceErrFails(st.toCreate)
     THEN [err |-> TRUE, finalHosts |-> << >>, toCreate |-> st.toCreate]
     ELSE [err |-> FALSE,
           finalHosts |-> AppendCreated(st.finalHosts, MapSliceErr(st.toCreate)),
           toCreate |-> st.toCreate]

\* ------------------------------------------------------- the program
VARIABLES
  remote,    \* the unbound section held by pfsense
  pc,        \* per call: the remote procedure ApplyChanges is about to call
  dryRun,    \* per call: pfsenseService.dryRun of the service that runs it
  args,      \* per call: toCreate, toUpdate, toDelete as passed in
  fetched,   \* per call: the section returned by fetchUnboundSection
  section,   \* per call: the local section after section.Hosts = finalHosts
  rpcs,      \* per call: the remote procedures called so far, with outcome
  result,    \* per call: the value ApplyChanges returned
  attempt,   \* per call: how many times it was re-invoked
  prev,      \* per call: what the previous invocation persisted
  conv       \* the last run of a mapper function or of ListEndpoints

vars == << remote, pc, dryRun, args, fetched, section, rpcs, result, attempt, prev, conv >>

\* const unboundConfigSection: the section every call reads and replaces;
\* Siblings stands for every field of the section other than the hosts
NoSection == [Hosts |-> << >>, Siblings |-> "unset"]
NoArgs == [toCreate |-> << >>, toUpdate |-> << >>, toDelete |-> << >>]
NoPrev == [persisted |-> FALSE, written |-> << >>]

\* outcome of client.Call with an OperationResult: success, a transport
\* error, or a structured result with success=false
CallOutcomes == { "ok", "error", "false" }
\* outcome of client.Call for backup_config_section
FetchOutcomes == { "ok", "error" }

\* sequences over S of length at most n
SeqsUpTo(S, n) == UNION { [1..k -> S] : k \in 0..n }

\* the remote store before the first call
InitialSections ==
  { [Hosts |-> h, Siblings |-> "acls-and-options"] : h \in SeqsUpTo(StoredHosts, MaxHosts) }

\* no mapper function has run
NoConv == [op |-> "none"]

InitOver(calls) ==
  /\ remote \in InitialSections
  /\ pc = [c \in calls |-> "idle"]
  /\ dryRun \in [calls -> BOOLEAN]
  /\ args = [c \in calls |-> NoArgs]
  /\ fetched = [c \in calls |-> NoSection]
  /\ section = [c \in calls |-> NoSection]
  /\ rpcs = [c \in calls |-> << >>]
  /\ result = [c \in calls |-> "none"]
  /\ attempt = [c \in calls |-> 0]
  /\ prev = [c \in calls |-> NoPrev]
  /\ conv = NoConv

\* one service, one call at a time
SeqCalls == { 1 }
Init == InitOver(SeqCalls)

\* two services against the same pfsense, one call each
ConcCalls == { 1, 2 }
InitConc == InitOver(ConcCalls)

\* the fast-path test with its comparisons inverted
NoChangesInverted(toCreate, toUpdate, toDelete) ==
  Len(toCreate) # 0 /\ Len(toUpdate) # 0 /\ Len(toDelete) # 0

\* len(toCreate) == 0 && len(toUpdate) == 0 && len(toDelete) == 0
NoChanges(toCreate, toUpdate, toDelete) ==
  Len(toCreate) = 0 /\ Len(toUpdate) = 0 /\ Len(toDelete) = 0

\* the error of the fetch dropped
FetchFailedIgnored(out) == FALSE

\* fetchUnboundSection: if err := client.Call(...); err != nil
FetchFailed(out) == out # "ok"

\* only the transport error tested, res.Success not looked at
SaveFailedTransportOnly(out) == out = "error"

\* saveUnboundSection: err != nil after client.Call, then !res.Success
SaveFailed(out) == out = "error" \/ out = "false"

\* only the transport error of exec_php tested
ExecPhpFailedTransportOnly(out) == out = "error"

\* execPhp: err != nil after client.Call, then !res.Success
ExecPhpFailed(out) == out = "error" \/ out = "false"

\* the dry-run test left out
AfterReconcileAlwaysSaves(dry) == "persist"

\* where ApplyChanges goes once section.Hosts is set: if s.dryRun { return nil }
AfterReconcile(dry) == IF dry THEN "done" ELSE "persist"

\* a call recorded in the log
Rpc(proc, out) == [proc |-> proc, out |-> out]

\* entry of ApplyChanges with the lists a: the no-op fast path or the fetch
Invoke(c, a) ==
  /\ args' = [args EXCEPT ![c] = a]
  /\ fetched' = [fetched EXCEPT ![c] = NoSection]
  /\ section' = [section EXCEPT ![c] = NoSection]
  /\ rpcs' = [rpcs EXCEPT ![c] = << >>]
  /\ IF NoChanges(a.toCreate, a.toUpdate, a.toDelete)
     THEN /\ pc' = [pc EXCEPT ![c] = "done"]
          /\ result' = [result EXCEPT ![c] = "ok"]
     ELSE /\ pc' = [pc EXCEPT ![c] = "fetch"]
          /\ result' = [result EXCEPT ![c] = "none"]
  /\ UNCHANGED << remote, dryRun, conv >>

\* the caller invokes ApplyChanges with at most limit endpoints from pool
Start(c, pool, limit) ==
  /\ pc[c] = "idle"
  /\ \E n1 \in 0..limit :
       \E n2 \in 0..(limit - n1) :
         \E n3 \in 0..(limit - n1 - n2) :
           \E tc \in [1..n1 -> pool], tu \in [1..n2 -> pool], td \in [1..n3 -> pool] :
             Invoke(c, [toCreate |-> tc, toUpdate |-> tu, toDelete |-> td])
  /\ UNCHANGED << attempt, prev >>

\* whether this invocation's restore_config_section succeeded
Persisted(c) ==
  \E i \in 1..Len(rpcs[c]) : rpcs[c][i] = Rpc("restore_config_section", "ok")

\* the caller re-invokes a finished ApplyChanges with the same three lists
Retry(c) ==
  /\ pc[c] = "done"
  /\ attempt[c] < MaxRetries
  /\ attempt' = [attempt EXCEPT ![c] = @ + 1]
  /\ prev' = [prev EXCEPT ![c] = [persisted |-> Persisted(c), written |-> section[c].Hosts]]
  /\ Invoke(c, args[c])

\* fetchUnboundSection, then the reconciliation up to the dry-run test
Fetch(c) ==
  /\ pc[c] = "fetch"
  /\ \E out \in FetchOutcomes :
       /\ rpcs' = [rpcs EXCEPT ![c] = Append(@, Rpc("backup_config_section", out))]
       /\ IF FetchFailed(out)
          THEN /\ pc' = [pc EXCEPT ![c] = "done"]
               /\ result' = [result EXCEPT ![c] = "fetch_error"]
               /\ UNCHANGED << fetched, section >>
          ELSE LET rec == Reconcile(remote.Hosts, args[c].toCreate,
                                    args[c].toUpdate, args[c].toDelete)
               IN /\ fetched' = [fetched EXCEPT ![c] = remote]
                  /\ IF rec.err
                     THEN /\ pc' = [pc EXCEPT ![c] = "done"]
                          /\ result' = [result EXCEPT ![c] = "convert_error"]
                          /\ UNCHANGED section
                     ELSE /\ section' = [section EXCEPT ![c] =
                                           [remote EXCEPT !.Hosts = rec.finalHosts]]
                          /\ pc' = [pc EXCEPT ![c] = AfterReconcile(dryRun[c])]
                          /\ result' = [result EXCEPT ![c] =
                                          IF AfterReconcile(dryRun[c]) = "done"
                                          THEN "ok" ELSE "none"]
  /\ UNCHANGED << remote, dryRun, args, attempt, prev, conv >>

\* restore_config_section sent with the section as it was fetched
PersistFetched(c) ==
  /\ pc[c] = "persist"
  /\ \E out \in CallOutcomes, applied \in BOOLEAN :
       /\ out = "ok" => applied
       /\ out = "false" => ~applied
       /\ rpcs' = [rpcs EXCEPT ![c] = Append(@, Rpc("restore_config_section", out))]
       /\ remote' = IF applied THEN fetched[c] ELSE remote
       /\ IF SaveFailed(out)
          THEN /\ pc' = [pc EXCEPT ![c] = "done"]
               /\ result' = [result EXCEPT ![c] = "save_error"]
          ELSE /\ pc' = [pc EXCEPT ![c] = "unbound"]
               /\ UNCHANGED result
  /\ UNCHANGED << dryRun, args, fetched, section, attempt, prev, conv >>

\* saveUnboundSection: the call of pfsense.restore_config_section
Persist(c) ==
  /\ pc[c] = "persist"
  /\ \E out \in CallOutcomes, applied \in BOOLEAN :
       /\ out = "ok" => applied
       /\ out = "false" => ~applied
       /\ rpcs' = [rpcs EXCEPT ![c] = Append(@, Rpc("restore_config_section", out))]
       /\ remote' = IF applied THEN section[c] ELSE remote
       /\ IF SaveFailed(out)
          THEN /\ pc' = [pc EXCEPT ![c] = "done"]
               /\ result' = [result EXCEPT ![c] = "save_error"]
          ELSE /\ pc' = [pc EXCEPT ![c] = "unbound"]
               /\ UNCHANGED result
  /\ UNCHANGED << dryRun, args, fetched, section, attempt, prev, conv >>

\* execPhp calling the script again after a failure, up to a few times
ExecPhpRetrying(c, proc, next) ==
  /\ \E out \in CallOutcomes :
       /\ rpcs' = [rpcs EXCEPT ![c] = Append(@, Rpc(proc, out))]
       /\ IF ExecPhpFailed(out) /\ Len(rpcs[c]) >= 5
          THEN /\ pc' = [pc EXCEPT ![c] = "done"]
               /\ result' = [result EXCEPT ![c] = "save_error"]
          ELSE IF ExecPhpFailed(out)
          THEN UNCHANGED << pc, result >>
          ELSE /\ pc' = [pc EXCEPT ![c] = next]
               /\ result' = [result EXCEPT ![c] = IF next = "done" THEN "ok" ELSE @]
  /\ UNCHANGED << remote, dryRun, args, fetched, section, attempt, prev, conv >>

\* execPhp from saveUnboundSection; proc names the script, next the step after
ExecPhp(c, proc, next) ==
  /\ \E out \in CallOutcomes :
       /\ rpcs' = [rpcs EXCEPT ![c] = Append(@, Rpc(proc, out))]
       /\ IF ExecPhpFailed(out)
          THEN /\ pc' = [pc EXCEPT ![c] = "done"]
               /\ result' = [result EXCEPT ![c] = "save_error"]
          ELSE /\ pc' = [pc EXCEPT ![c] = next]
               /\ result' = [result EXCEPT ![c] = IF next = "done" THEN "ok" ELSE @]
  /\ UNCHANGED << remote, dryRun, args, fetched, section, attempt, prev, conv >>

\* execPhp("$toreturn = services_unbound_configure(false);")
ConfigureUnbound(c) ==
  /\ pc[c] = "unbound"
  /\ ExecPhp(c, "exec_php:services_unbound_configure", "dhcpd")

\* execPhp("$toreturn = services_dhcpd_configure();")
ConfigureDhcpd(c) ==
  /\ pc[c] = "dhcpd"
  /\ ExecPhp(c, "exec_php:services_dhcpd_configure", "done")

Next ==
  \E c \in SeqCalls :
    \/ Start(c, Endpoints, MaxChanges)
    \/ Retry(c)
    \/ Fetch(c)
    \/ Persist(c)
    \/ ConfigureUnbound(c)
    \/ ConfigureDhcpd(c)

Spec == Init /\ [][Next]_vars

\* a remote call that was made returns, with a result or with an error:
\* client.Call is synchronous and ApplyChanges runs on from it
Proceed ==
  \E c \in SeqCalls : Fetch(c) \/ Persist(c) \/ ConfigureUnbound(c) \/ ConfigureDhcpd(c)

\* the endpoints and the number of changes of the calls whose termination
\* is checked
MaxLiveChanges == 1
LiveEndpoints == { EpA1, EpNoName }

NextLive ==
  \E c \in SeqCalls :
    \/ Start(c, LiveEndpoints, MaxLiveChanges)
    \/ Retry(c)
    \/ Fetch(c)
    \/ Persist(c)
    \/ ConfigureUnbound(c)
    \/ ConfigureDhcpd(c)

\* the store holds one hand-authored override before the first call
InitLive == Init /\ remote.Hosts = << HostDotted >>

SpecLive == InitLive /\ [][NextLive]_vars /\ WF_vars(Proceed)

NextConc ==
  \E c \in ConcCalls :
    \/ Start(c, ConcEndpoints(c), MaxConcChanges)
    \/ Fetch(c)
    \/ Persist(c)
    \/ ConfigureUnbound(c)
    \/ ConfigureDhcpd(c)

SpecConc == InitConc /\ [][NextConc]_vars

\* ----------------------------------------- the mapper functions on their own
\* longest name the splitter and the joiner are run on
MaxNameLen == 5

\* the characters of a name: two letters and the dot
Chars == { "a", "x", Dot }
Names == SeqsUpTo(Chars, MaxNameLen)

\* host labels without a dot, the empty one included
DotFreeHosts == { n \in SeqsUpTo(Chars, 2) : Count(n) = 0 }

\* one or more non-empty labels joined by dots
IsDomain(n) ==
  /\ n # << >>
  /\ n[1] # Dot
  /\ n[Len(n)] # Dot
  /\ \A i \in 1..(Len(n) - 1) : ~(n[i] = Dot /\ n[i + 1] = Dot)
Domains == { n \in Names : IsDomain(n) }

\* endpoints the mapper is run on: every record type, target count and
\* label set over a few names
NameABXCom == << "a", Dot, "b", Dot, "x", Dot, "com" >>
CodecNames == { EmptyString, << "com" >>, DomainXCom, NameAXCom, NameABXCom }
CodecEndpoints ==
  [DNSName : CodecNames,
   Targets : SeqsUpTo({ "1.1.1.1", "2.2.2.2" }, 2),
   Labels : { NoLabels, [env |-> "test"] },
   RecordType : { "A", "TXT", "MX", "" }]

\* descriptions a host override can carry
FullObject ==
  [dnsName |-> NameAXCom, recordType |-> "TXT",
   targets |-> << "7.7.7.7", "8.8.8.8" >>, labels |-> [env |-> "test"]]
JsonObjects ==
  { [kind |-> "json", fields |-> [k \in K |-> FullObject[k]]] : K \in SUBSET DOMAIN FullObject }
   \cup { [kind |-> "json", fields |-> [recordType |-> ""]] }
CodecDescrs ==
  { EmptyDescr,
    [kind |-> "text", fields |-> NoFields],
    [kind |-> "base64", fields |-> FullObject],
    [kind |-> "badjson", fields |-> NoFields] } \cup JsonObjects

\* host overrides the mapper is run on
CodecHosts ==
  [Host : { << >>, << "a" >>, << "a", Dot, "b" >> },
   Domain : { DomainXCom },
   Ip : { "1.1.1.1" },
   Descr : CodecDescrs,
   Aliases : { "" }]

\* an override whose description is quoted the way pfsense sometimes stores it
HostBadJSON == [Host |-> << "b" >>, Domain |-> DomainXCom, Ip |-> "3.3.3.3",
                Descr |-> [kind |-> "badjson", fields |-> NoFields], Aliases |-> ""]

\* what ListEndpoints finds in the store
ListedHosts == { HostA, HostBadJSON, endpointToHost(EpA1) }

\* the zero values host{} and UnboundEndpoint{} returned with an error
ZeroHost == [Host |-> << >>, Domain |-> << >>, Ip |-> "", Descr |-> EmptyDescr, Aliases |-> ""]
ZeroEndpoint == [DNSName |-> << >>, Targets |-> << >>, Labels |-> << >>, RecordType |-> ""]

InitCodec ==
  /\ remote \in { [Hosts |-> h, Siblings |-> "acls-and-options"] :
                    h \in SeqsUpTo(ListedHosts, MaxHosts) }
  /\ pc = << >>
  /\ dryRun = << >>
  /\ args = << >>
  /\ fetched = << >>
  /\ section = << >>
  /\ rpcs = << >>
  /\ result = << >>
  /\ attempt = << >>
  /\ prev = << >>
  /\ conv = NoConv

\* endpointToHost on an endpoint, then hostToEndpoint on the host it returned
ConvertEndpoint ==
  /\ conv = NoConv
  /\ \E e \in CodecEndpoints :
       LET err == EndpointToHostFails(e)
           h == IF err THEN ZeroHost ELSE endpointToHost(e)
           backErr == err \/ HostToEndpointFails(h)
       IN conv' = [op |-> "endpointToHost", endpoint |-> e, err |-> err, host |-> h,
                   backErr |-> backErr,
                   back |-> IF backErr THEN ZeroEndpoint ELSE hostToEndpoint(h)]
  /\ UNCHANGED << remote, pc, dryRun, args, fetched, section, rpcs, result, attempt, prev >>

\* hostToEndpoint on a host override
ConvertHost ==
  /\ conv = NoConv
  /\ \E h \in CodecHosts :
       LET err == HostToEndpointFails(h) IN
       conv' = [op |-> "hostToEndpoint", host |-> h, err |-> err,
                endpoint |-> IF err THEN ZeroEndpoint ELSE hostToEndpoint(h)]
  /\ UNCHANGED << remote, pc, dryRun, args, fetched, section, rpcs, result, attempt, prev >>

\* buildDNSName on (host, domain), then explodeHostName on the name
JoinThenSplit ==
  /\ conv = NoConv
  /\ \E h \in DotFreeHosts \cup { << "a", Dot, "x" >> }, d \in Domains :
       LET joinErr == BuildDNSNameFails(h, d)
           name == buildDNSName(h, d)
           splitErr == joinErr \/ ExplodeHostNameFails(name)
       IN conv' = [op |-> "joinSplit", host |-> h, domain |-> d,
                   joinErr |-> joinErr, name |-> name, splitErr |-> splitErr,
                   back |-> IF splitErr THEN [Host |-> << >>, Domain |-> << >>]
                            ELSE explodeHostName(name)]
  /\ UNCHANGED << remote, pc, dryRun, args, fetched, section, rpcs, result, attempt, prev >>

\* explodeHostName on a name, then buildDNSName on the parts
SplitThenJoin ==
  /\ conv = NoConv
  /\ \E n \in Names \cup CodecNames :
       LET splitErr == ExplodeHostNameFails(n)
           parts == IF splitErr THEN [Host |-> << >>, Domain |-> << >>]
                    ELSE explodeHostName(n)
           joinErr == splitErr \/ BuildDNSNameFails(parts.Host, parts.Domain)
       IN conv' = [op |-> "splitJoin", name |-> n, splitErr |-> splitErr,
                   parts |-> parts, joinErr |-> joinErr,
                   back |-> IF joinErr THEN << >>
                            ELSE buildDNSName(parts.Host, parts.Domain)]
  /\ UNCHANGED << remote, pc, dryRun, args, fetched, section, rpcs, result, attempt, prev >>

\* pfsenseService.ListEndpoints
ListEndpoints ==
  /\ conv = NoConv
  /\ \E out \in FetchOutcomes :
       LET err == FetchFailed(out)
                  \/ \E i \in 1..Len(remote.Hosts) : HostToEndpointFails(remote.Hosts[i])
       IN conv' = [op |-> "ListEndpoints", out |-> out, hosts |-> remote.Hosts, err |-> err,
                   endpoints |-> IF err THEN << >>
                                 ELSE [i \in 1..Len(remote.Hosts) |->
                                         hostToEndpoint(remote.Hosts[i])]]
  /\ UNCHANGED << remote, pc, dryRun, args, fetched, section, rpcs, result, attempt, prev >>

NextCodec ==
  \/ ConvertEndpoint
  \/ ConvertHost
  \/ JoinThenSplit
  \/ SplitThenJoin
  \/ ListEndpoints

SpecCodec == InitCodec /\ [][NextCodec]_vars

\* ---------------------------------------------------------------- claims
\* the identity key (host, domain) of a record and of an endpoint's name
HostKey(h) == << h.Host, h.Domain >>
HasKey(endpoint) == ~ExplodeHostNameFails(endpoint.DNSName)
EndpointKey(endpoint) ==
  << explodeHostName(endpoint.DNSName).Host, explodeHostName(endpoint.DNSName).Domain >>
SameKey(h, endpoint) == HasKey(endpoint) /\ HostKey(h) = EndpointKey(endpoint)
KeyIn(h, endpoints) == \E j \in 1..Len(endpoints) : SameKey(h, endpoints[j])

\* the call has reconciled: section.Hosts = finalHosts was reached
Computed(c) == section[c] # NoSection
\* the call returned nil after restore_config_section succeeded
Applied(c) == pc[c] = "done" /\ result[c] = "ok" /\ Persisted(c)

\* C1: after a successful non-dry-run ApplyChanges the list written to the
\* store holds no record whose (host, domain) key is the key of a toDelete
\* endpoint (keys the same request also creates are left aside).
C1_DeletedKeysAbsent ==
  \A c \in DOMAIN pc :
    Applied(c) =>
      \A i \in 1..Len(section[c].Hosts) :
        LET h == section[c].Hosts[i] IN
        KeyIn(h, args[c].toDelete) => KeyIn(h, args[c].toCreate)

\* fetched records before position i that a toDelete key removes
DeletedBefore(c, i) ==
  Cardinality({ j \in 1..(i - 1) : KeyIn(fetched[c].Hosts[j], args[c].toDelete) })

\* the first toUpdate endpoint with the key of record h
RECURSIVE FirstWithKey(_, _, _)
FirstWithKey(endpoints, h, j) ==
  IF j > Len(endpoints) THEN 0
  ELSE IF SameKey(h, endpoints[j]) THEN j
  ELSE FirstWithKey(endpoints, h, j + 1)

\* C2: every fetched record whose key matches a toUpdate endpoint and no
\* toDelete endpoint is replaced, at its position among the surviving
\* records, by endpointToHost of that update endpoint.
C2_UpdatedInPlace ==
  \A c \in DOMAIN pc :
    Computed(c) =>
      \A i \in 1..Len(fetched[c].Hosts) :
        LET h == fetched[c].Hosts[i]
            u == FirstWithKey(args[c].toUpdate, h, 1)
            p == i - DeletedBefore(c, i)
        IN (u # 0 /\ ~KeyIn(h, args[c].toDelete)) =>
             /\ p <= Len(section[c].Hosts)
             /\ section[c].Hosts[p] = endpointToHost(args[c].toUpdate[u])

\* the records of a list have pairwise distinct (host, domain) keys
DistinctKeys(hosts) ==
  \A i, j \in 1..Len(hosts) : i # j => HostKey(hosts[i]) # HostKey(hosts[j])
\* the endpoints of a list have pairwise distinct names
DistinctNames(endpoints) ==
  \A i, j \in 1..Len(endpoints) : i # j => endpoints[i].DNSName # endpoints[j].DNSName

\* C3: a create for a key the fetched list already holds is not appended:
\* when the fetched keys are pairwise distinct and the toCreate names are
\* pairwise distinct, the list written back has pairwise distinct keys.
C3_CreateExistingIsNoOp ==
  \A c \in DOMAIN pc :
    (Computed(c) /\ DistinctKeys(fetched[c].Hosts) /\ DistinctNames(args[c].toCreate))
      => DistinctKeys(section[c].Hosts)

\* the request names every key once over its three lists
OneDispositionPerKey(c) ==
  DistinctNames(args[c].toCreate \o args[c].toUpdate \o args[c].toDelete)

\* C4: when an ApplyChanges persisted its list and is invoked again with the
\* same lists, the list the second invocation computes equals the stored one
\* (stated for requests that name every key once).
C4_ReapplyIdempotent ==
  \A c \in DOMAIN pc :
    (attempt[c] > 0 /\ prev[c].persisted /\ Computed(c) /\ OneDispositionPerKey(c))
      => section[c].Hosts = prev[c].written

\* C5: a fetched record whose key is in both toUpdate and toDelete is absent
\* from the result: no record of the result carries its key (keys the same
\* request also creates are left aside).
C5_DeleteBeatsUpdate ==
  \A c \in DOMAIN pc :
    Computed(c) =>
      \A i \in 1..Len(fetched[c].Hosts) :
        LET h == fetched[c].Hosts[i] IN
        (KeyIn(h, args[c].toUpdate) /\ KeyIn(h, args[c].toDelete)
           /\ ~KeyIn(h, args[c].toCreate))
          => \A k \in 1..Len(section[c].Hosts) : HostKey(section[c].Hosts[k]) # HostKey(h)

\* sub[p..] embeds in order into full[q..], each record either the fetched
\* record itself or the host of a toUpdate endpoint with that record's key
RECURSIVE SurvivorsEmbed(_, _, _, _, _)
SurvivorsEmbed(sub, p, full, q, toUpdate) ==
  IF p > Len(sub) THEN TRUE
  ELSE IF q > Len(full) THEN FALSE
  ELSE IF \/ sub[p] = full[q]
          \/ \E j \in 1..Len(toUpdate) :
               /\ SameKey(full[q], toUpdate[j])
               /\ ~EndpointToHostFails(toUpdate[j])
               /\ sub[p] = endpointToHost(toUpdate[j])
       THEN SurvivorsEmbed(sub, p + 1, full, q + 1, toUpdate)
       ELSE SurvivorsEmbed(sub, p, full, q + 1, toUpdate)

\* sub[p..] is, in order, the hosts of a subsequence of toCreate[q..]
RECURSIVE CreatedEmbed(_, _, _, _)
CreatedEmbed(sub, p, toCreate, q) ==
  IF p > Len(sub) THEN TRUE
  ELSE IF q > Len(toCreate) THEN FALSE
  ELSE IF ~EndpointToHostFails(toCreate[q]) /\ sub[p] = endpointToHost(toCreate[q])
       THEN CreatedEmbed(sub, p + 1, toCreate, q + 1)
       ELSE CreatedEmbed(sub, p, toCreate, q + 1)

\* C6: the computed list is the surviving fetched records in their original
\* order (updates in place) followed by the hosts of remaining toCreate
\* endpoints in the order supplied; creates for keys absent from the fetched
\* list are all appended, two creates of one key included.
C6_OutputOrder ==
  \A c \in DOMAIN pc :
    Computed(c) =>
      LET R == section[c].Hosts
          F == fetched[c].Hosts
          C == args[c].toCreate
      IN /\ \E k \in 0..Len(R) :
              /\ SurvivorsEmbed(SubSeq(R, 1, k), 1, F, 1, args[c].toUpdate)
              /\ CreatedEmbed(SubSeq(R, k + 1, Len(R)), 1, C, 1)
         /\ (\A j \in 1..Len(C) :
               /\ ~EndpointToHostFails(C[j])
               /\ \A i \in 1..Len(F) : ~SameKey(F[i], C[j]))
              => /\ Len(R) >= Len(C)
                 /\ SubSeq(R, Len(R) - Len(C) + 1, Len(R))
                      = [j \in 1..Len(C) |-> endpointToHost(C[j])]

\* a fetched record kept in front, then two created records of one absent key
C6_Witness ==
  /\ args[1].toCreate = << EpA1, EpA2 >>
  /\ fetched[1].Hosts = << HostB >>
  /\ section[1].Hosts = << HostB, endpointToHost(EpA1), endpointToHost(EpA2) >>

\* C7: with toCreate, toUpdate and toDelete all empty ApplyChanges returns
\* nil without calling any remote procedure, dry-run or not.
C7_NoOpFastPath ==
  \A c \in DOMAIN pc :
    (pc[c] # "idle" /\ args[c].toCreate = << >> /\ args[c].toUpdate = << >>
       /\ args[c].toDelete = << >>)
      => /\ pc[c] = "done"
         /\ result[c] = "ok"
         /\ rpcs[c] = << >>

\* an invocation with three empty lists has returned
C7_Witness ==
  /\ pc[1] = "done"
  /\ args[1] = NoArgs
  /\ result[1] = "ok"
  /\ rpcs[1] = << >>
  /\ ~dryRun[1]

\* the call c takes the step
Steps(c) == pc'[c] # pc[c] \/ rpcs'[c] # rpcs[c]

\* C8: a dry-run call calls only backup_config_section, returns nil once the
\* fetch and the reconciliation succeeded, and none of its steps changes the
\* remote section, whatever the other call does in between.
C8_DryRunNeverMutates ==
  /\ [](\A c \in DOMAIN pc :
          dryRun[c] =>
            /\ \A i \in 1..Len(rpcs[c]) : rpcs[c][i].proc = "backup_config_section"
            /\ (fetched[c] # NoSection
                  /\ ~Reconcile(fetched[c].Hosts, args[c].toCreate,
                                args[c].toUpdate, args[c].toDelete).err)
                 => (pc[c] = "done" /\ result[c] = "ok"))
  /\ [][\A c \in DOMAIN pc : (dryRun[c] /\ Steps(c)) => remote' = remote]_vars

\* a dry-run call returned nil with a list that differs from what it fetched,
\* while the other, real call has replaced the section
C8_Witness ==
  /\ DOMAIN pc = ConcCalls
  /\ dryRun[1] /\ ~dryRun[2]
  /\ pc[1] = "done" /\ result[1] = "ok"
  /\ rpcs[1] = << Rpc("backup_config_section", "ok") >>
  /\ section[1].Hosts # fetched[1].Hosts
  /\ Persisted(2)
  /\ remote # section[1]

\* C9: when backup_config_section fails, ApplyChanges returns an error, calls
\* no further remote procedure and the failing step leaves the store as it was.
C9_FetchFailureAborts ==
  /\ [](\A c \in DOMAIN pc :
          (rpcs[c] # << >> /\ rpcs[c][1] = Rpc("backup_config_section", "error"))
            => /\ Len(rpcs[c]) = 1
               /\ pc[c] = "done"
               /\ result[c] = "fetch_error"
               /\ section[c] = NoSection)
  /\ [][\A c \in DOMAIN pc :
          rpcs'[c] = Append(rpcs[c], Rpc("backup_config_section", "error"))
            => remote' = remote]_vars

\* a real call with changes to apply whose fetch failed
C9_Witness ==
  /\ ~dryRun[1]
  /\ args[1].toCreate = << EpA1 >>
  /\ rpcs[1] = << Rpc("backup_config_section", "error") >>
  /\ result[1] = "fetch_error"

\* C10: a transport error and success=false alike, from restore_config_section
\* or from an exec_php trigger, make ApplyChanges return an error with that
\* call as its last remote call.
C10_PersistFailureAborts ==
  \A c \in DOMAIN pc :
    \A i \in 1..Len(rpcs[c]) :
      (rpcs[c][i].proc # "backup_config_section" /\ rpcs[c][i].out \in {"error", "false"})
        => /\ i = Len(rpcs[c])
           /\ pc[c] = "done"
           /\ result[c] = "save_error"

\* restore_config_section answered success=false and the call returned an error
C10_Witness ==
  /\ rpcs[1] = << Rpc("backup_config_section", "ok"), Rpc("restore_config_section", "false") >>
  /\ pc[1] = "done"
  /\ result[1] = "save_error"

\* a reconfigure trigger of this invocation failed
TriggerFailed(c) ==
  \E i \in 1..Len(rpcs[c]) :
    /\ rpcs[c][i].proc \in {"exec_php:services_unbound_configure",
                            "exec_php:services_dhcpd_configure"}
    /\ rpcs[c][i].out # "ok"

\* C11: when restore_config_section succeeded and a reconfigure trigger fails,
\* ApplyChanges returns an error, the store keeps the new host list (nothing
\* is rolled back) and no trigger is called after the failed one.
C11_PartialFailureWindow ==
  \A c \in DOMAIN pc :
    (Persisted(c) /\ TriggerFailed(c)) =>
      /\ pc[c] = "done"
      /\ result[c] \notin {"ok", "none"}
      /\ remote = section[c]
      /\ rpcs[c][Len(rpcs[c])].out # "ok"
      /\ \A i \in 1..(Len(rpcs[c]) - 1) : rpcs[c][i].out = "ok"

\* the unbound trigger failed after a changed list was stored
C11_Witness ==
  /\ rpcs[1] = << Rpc("backup_config_section", "ok"),
                  Rpc("restore_config_section", "ok"),
                  Rpc("exec_php:services_unbound_configure", "error") >>
  /\ result[1] = "save_error"
  /\ remote = section[1]
  /\ section[1].Hosts # fetched[1].Hosts

\* an endpoint that is malformed or unsupported: a name without a dot, a
\* record type other than A and TXT, an A record without exactly one target
Malformed(endpoint) ==
  \/ Count(endpoint.DNSName) = 0
  \/ endpoint.RecordType \notin {"A", "TXT"}
  \/ (endpoint.RecordType = "A" /\ Len(endpoint.Targets) # 1)
AnyMalformed(endpoints) == \E j \in 1..Len(endpoints) : Malformed(endpoints[j])

\* C12: a request with a malformed or unsupported endpoint in any of its
\* lists is rejected and calls no remote procedure at all.
C12_ValidationBeforeRemote ==
  \A c \in DOMAIN pc :
    (pc[c] # "idle" /\ (AnyMalformed(args[c].toCreate) \/ AnyMalformed(args[c].toUpdate)
                          \/ AnyMalformed(args[c].toDelete)))
      => /\ rpcs[c] = << >>
         /\ pc[c] = "done" => result[c] \notin {"ok", "none"}

\* C13: hostToEndpoint returns no error for a host override with a dot-free
\* host, whatever its description, and ListEndpoints does not fail over such
\* overrides once the fetch succeeded.
C13_HostToEndpointTotal ==
  /\ (conv.op = "hostToEndpoint" /\ Count(conv.host.Host) = 0) => ~conv.err
  /\ (conv.op = "ListEndpoints" /\ conv.out = "ok"
        /\ \A i \in 1..Len(conv.hosts) : Count(conv.hosts[i].Host) = 0) => ~conv.err

\* C14: for an endpoint of type A or TXT with a name that splits and the
\* right number of targets, hostToEndpoint(endpointToHost(e)) has e's record
\* type, targets and labels.
C14_CodecRoundTrip ==
  (conv.op = "endpointToHost"
     /\ conv.endpoint.RecordType \in {"A", "TXT"}
     /\ Count(conv.endpoint.DNSName) >= 1
     /\ (conv.endpoint.RecordType = "A" => Len(conv.endpoint.Targets) = 1))
    => /\ ~conv.err
       /\ ~conv.backErr
       /\ conv.back.RecordType = conv.endpoint.RecordType
       /\ conv.back.Targets = conv.endpoint.Targets
       /\ conv.back.Labels = conv.endpoint.Labels

\* a TXT endpoint with two targets and a label went through both mappers
C14_Witness ==
  /\ conv.op = "endpointToHost"
  /\ conv.endpoint = [DNSName |-> NameAXCom, Targets |-> << "1.1.1.1", "2.2.2.2" >>,
                      Labels |-> [env |-> "test"], RecordType |-> "TXT"]
  /\ conv.host.Ip = "127.0.0.1"
  /\ ~conv.backErr
  /\ conv.back.Targets = << "1.1.1.1", "2.2.2.2" >>
  /\ conv.back.Labels = [env |-> "test"]

\* explodeHostName(buildDNSName(host, domain)) gave back (host, domain)
SplitAfterJoinIsIdentity ==
  /\ ~conv.joinErr
  /\ ~conv.splitErr
  /\ conv.back = [Host |-> conv.host, Domain |-> conv.domain]

\* C15 as stated: for every dot-free host, the empty one included, and every
\* domain of one or more labels, explodeHostName(buildDNSName(host, domain))
\* is (host, domain).
C15_SplitAfterJoin ==
  (conv.op = "joinSplit" /\ Count(conv.host) = 0) => SplitAfterJoinIsIdentity

\* C15 amended: for a dot-free host and a domain of one or more labels the
\* round trip is the identity exactly when the host is non-empty and the
\* domain has two or more labels, or the host is empty and the domain has
\* exactly two labels.
C15_SplitAfterJoinAmended ==
  (conv.op = "joinSplit" /\ Count(conv.host) = 0) =>
    (SplitAfterJoinIsIdentity <=>
       \/ (conv.host # << >> /\ Count(conv.domain) >= 1)
       \/ (conv.host = << >> /\ Count(conv.domain) = 1))

\* a host label and a two-label domain came back from the round trip
C15_Witness ==
  /\ conv.op = "joinSplit"
  /\ conv.host = << "a" >>
  /\ conv.domain = << "x", Dot, "a" >>
  /\ conv.name = << "a", Dot, "x", Dot, "a" >>
  /\ conv.back = [Host |-> << "a" >>, Domain |-> << "x", Dot, "a" >>]

\* buildDNSName(explodeHostName(n)) gave back n
JoinAfterSplitIsIdentity == ~conv.joinErr /\ conv.back = conv.name

\* C16 as stated: for every name explodeHostName accepts, buildDNSName of the
\* resulting (host, domain) succeeds and returns the name.
C16_JoinAfterSplit ==
  (conv.op = "splitJoin" /\ ~conv.splitErr) => JoinAfterSplitIsIdentity

\* C16 amended: for a name explodeHostName accepts, buildDNSName of the parts
\* returns the name exactly when the name has one dot or does not begin with
\* a dot.
C16_JoinAfterSplitAmended ==
  (conv.op = "splitJoin" /\ ~conv.splitErr) =>
    (JoinAfterSplitIsIdentity <=> (Count(conv.name) = 1 \/ conv.name[1] # Dot))

\* a three-label name was split and joined back
C16_Witness ==
  /\ conv.op = "splitJoin"
  /\ conv.name = << "a", Dot, "x", Dot, "a" >>
  /\ conv.parts = [Host |-> << "a" >>, Domain |-> << "x", Dot, "a" >>]
  /\ conv.back = << "a", Dot, "x", Dot, "a" >>

\* C17: endpointToHost fails exactly for a record type other than A and TXT,
\* a name without a dot, or an A record without exactly one target; when it
\* succeeds the ip of an A record is its one target and the description
\* carries the targets as given.
C17_EndpointToHostFailsExactly ==
  conv.op = "endpointToHost" =>
    /\ conv.err <=> Malformed(conv.endpoint)
    /\ ~conv.err =>
         /\ conv.endpoint.RecordType = "A" => conv.host.Ip = conv.endpoint.Targets[1]
         /\ UnmarshalEndpoint(conv.host.Descr).Targets = conv.endpoint.Targets

\* an A endpoint with two targets was refused
C17_Witness ==
  /\ conv.op = "endpointToHost"
  /\ conv.endpoint = [DNSName |-> NameAXCom, Targets |-> << "1.1.1.1", "2.2.2.2" >>,
                      Labels |-> NoLabels, RecordType |-> "A"]
  /\ conv.err

\* C18: the section handed to saveUnboundSection has the fetched section's
\* fields other than the hosts, and every fetched host whose key is in
\* neither toDelete nor toUpdate is in it with all its fields unchanged.
C18_UnrelatedSurvives ==
  \A c \in DOMAIN pc :
    (Computed(c) /\ ~dryRun[c]) =>
      /\ section[c].Siblings = fetched[c].Siblings
      /\ \A i \in 1..Len(fetched[c].Hosts) :
           LET h == fetched[c].Hosts[i] IN
           (~KeyIn(h, args[c].toDelete) /\ ~KeyIn(h, args[c].toUpdate))
             => \E k \in 1..Len(section[c].Hosts) : section[c].Hosts[k] = h

\* a valid A endpoint with exactly one target
ValidA(endpoint) ==
  /\ endpoint.RecordType = "A"
  /\ Len(endpoint.Targets) = 1
  /\ Count(endpoint.DNSName) >= 1
\* the endpoints of the three lists are valid A endpoints and none of them
\* names a record of hosts
AbsentValidChanges(c, hosts) ==
  \A j \in 1..Len(args[c].toCreate \o args[c].toUpdate \o args[c].toDelete) :
    LET e == (args[c].toCreate \o args[c].toUpdate \o args[c].toDelete)[j] IN
    /\ ValidA(e)
    /\ \A i \in 1..Len(hosts) : ~SameKey(hosts[i], e)

\* C19: a request of valid one-target A endpoints naming no stored record is
\* accepted: the computed list is the fetched one followed by the hosts of
\* the creates (deletes and updates change nothing), and the call returns nil
\* when every remote call succeeded.
C19_AbsentNamesAccepted ==
  \A c \in DOMAIN pc :
    (rpcs[c] # << >> /\ rpcs[c][1].out = "ok" /\ AbsentValidChanges(c, fetched[c].Hosts))
      => /\ Computed(c)
         /\ section[c].Hosts =
              fetched[c].Hosts \o [j \in 1..Len(args[c].toCreate) |->
                                     endpointToHost(args[c].toCreate[j])]
         /\ (pc[c] = "done" /\ \A i \in 1..Len(rpcs[c]) : rpcs[c][i].out = "ok")
              => result[c] = "ok"

\* a create and a delete of absent names went through all four remote calls
C19_Witness ==
  /\ args[1] = [toCreate |-> << EpA1 >>, toUpdate |-> << >>, toDelete |-> << EpB >>]
  /\ fetched[1].Hosts = << HostDotted >>
  /\ pc[1] = "done"
  /\ result[1] = "ok"
  /\ Len(rpcs[1]) = 4
  /\ remote.Hosts = << HostDotted, endpointToHost(EpA1) >>

\* C20: the description endpointToHost stores is the base64 encoding of the
\* JSON metadata, never raw JSON, and hostToEndpoint reads the metadata out
\* of a base64 description.
C20_DescriptionIsBase64 ==
  /\ (conv.op = "endpointToHost" /\ ~conv.err) => conv.host.Descr.kind = "base64"
  /\ (conv.op = "hostToEndpoint" /\ ~conv.err /\ conv.host.Descr.kind = "base64")
       => /\ conv.endpoint.RecordType = conv.host.Descr.fields["recordType"]
          /\ conv.endpoint.Targets = conv.host.Descr.fields["targets"]


\* the remote procedures of one ApplyChanges, in the order of the code
CallOrder ==
  << "backup_config_section", "restore_config_section",
     "exec_php:services_unbound_configure", "exec_php:services_dhcpd_configure" >>

\* the calls made so far are the first ones of CallOrder, each one once,
\* and every call but the last one succeeded
InCallOrder(log) ==
  /\ Len(log) <= Len(CallOrder)
  /\ \A i \in 1..Len(log) :
       /\ log[i].proc = CallOrder[i]
       /\ i < Len(log) => log[i].out = "ok"

\* C21: within one ApplyChanges call fetch, persist, the unbound trigger and
\* the dhcpd trigger are each called at most once, in that order, each only
\* after the one before it succeeded; a step adds at most one call, a call
\* that failed or the fourth call ends the invocation, and every invocation
\* ends.
C21_StrictOrderNoRetry ==
  /\ [](\A c \in SeqCalls :
          /\ InCallOrder(rpcs[c])
          /\ (rpcs[c] # << >> /\ rpcs[c][Len(rpcs[c])].out # "ok") => pc[c] = "done"
          /\ Len(rpcs[c]) = Len(CallOrder) => pc[c] = "done")
  /\ [][\A c \in SeqCalls :
          \/ rpcs'[c] = rpcs[c]
          \/ (rpcs'[c] = << >> /\ pc[c] \in {"idle", "done"})
          \/ (Len(rpcs'[c]) = Len(rpcs[c]) + 1
                /\ SubSeq(rpcs'[c], 1, Len(rpcs[c])) = rpcs[c])]_vars
  /\ \A c \in SeqCalls : (pc[c] \in {"fetch", "persist", "unbound", "dhcpd"}) ~> (pc[c] = "done")

\* a re-invoked call went through its four remote calls once more
C21_Witness ==
  /\ attempt[1] = 1
  /\ pc[1] = "done"
  /\ [i \in 1..Len(rpcs[1]) |-> rpcs[1][i].proc] = CallOrder
  /\ \A i \in 1..Len(rpcs[1]) : rpcs[1][i].out = "ok"

\* a name of four or more labels: beyond a two-label domain its leading
\* portion holds more than one label, as in a.b.example.com
DeepName(name) == Count(name) >= 3

\* C22 as stated: explodeHostName returns an error for every name whose
\* leading portion holds more than one label, and endpointToHost fails for
\* an endpoint with such a name.
C22_SplitterRejectsDeepNames ==
  /\ (conv.op = "splitJoin" /\ DeepName(conv.name)) => conv.splitErr
  /\ (conv.op = "endpointToHost" /\ DeepName(conv.endpoint.DNSName)) => conv.err

\* C22 amended: explodeHostName returns an error exactly for a name without
\* a dot; a name with two or more dots is split at its first dot, whatever
\* the number of labels after it, and endpointToHost gives the host record
\* with that host and that domain when type and target count allow it.
C22_SplitterAcceptsDeepNames ==
  /\ conv.op = "splitJoin" =>
       /\ conv.splitErr <=> Count(conv.name) = 0
       /\ Count(conv.name) >= 2 =>
            /\ Count(conv.parts.Host) = 0
            /\ conv.parts.Host \o << Dot >> \o conv.parts.Domain = conv.name
  /\ (conv.op = "endpointToHost" /\ DeepName(conv.endpoint.DNSName)
        /\ conv.endpoint.RecordType = "A" /\ Len(conv.endpoint.Targets) = 1) =>
       /\ ~conv.err
       /\ conv.host.Host \o << Dot >> \o conv.host.Domain = conv.endpoint.DNSName
       /\ Count(conv.host.Host) = 0

\* a.b.x.com was split into the host a and the domain b.x.com
C22_Witness ==
  /\ conv.op = "splitJoin"
  /\ conv.name = NameABXCom
  /\ ~conv.splitErr
  /\ conv.parts = [Host |-> << "a" >>, Domain |-> << "b", Dot, "x", Dot, "com" >>]

\* C23: when the description of a host record parses as the JSON object, a
\* missing or empty recordType gives the record type A, missing targets give
\* the one target that is the record's own ip, and the endpoint returned
\* never has an empty target list.
C23_DecodeDefaults ==
  (conv.op = "hostToEndpoint" /\ ~conv.err /\ conv.host.Descr.kind = "json") =>
    LET fields == conv.host.Descr.fields IN
    /\ ("recordType" \notin DOMAIN fields \/ fields["recordType"] = "")
         => conv.endpoint.RecordType = "A"
    /\ "targets" \notin DOMAIN fields => conv.endpoint.Targets = << conv.host.Ip >>
    /\ conv.endpoint.Targets # << >>

RemainingCreateFails(c) ==
  \E j \in 1..Len(args[c].toCreate) :
    /\ Malformed(args[c].toCreate[j])
    /\ \A i \in 1..Len(fetched[c].Hosts) :
         ~MatchesExisting(fetched[c].Hosts[i], args[c].toCreate[j])
\* the toUpdate endpoint matched by a fetched record that is not deleted
\* cannot be converted
MatchedUpdateFails(c) ==
  \E i \in 1..Len(fetched[c].Hosts) :
    LET h == fetched[c].Hosts[i]
        updateIndex == IndexFunc(args[c].toUpdate, h, 1)
    IN /\ ~ContainsFunc(args[c].toDelete, h)
       /\ updateIndex # 0
       /\ Malformed(args[c].toUpdate[updateIndex])

\* C24: when the fetch succeeded and a remaining toCreate endpoint or a
\* matched toUpdate endpoint cannot be converted to a host record, the call
\* has returned an error with backup_config_section as its only remote call,
\* and the store holds what was fetched, whatever else the request asked for.
C24_AllOrNothingOnConversionFailure ==
  \A c \in DOMAIN pc :
    (rpcs[c] # << >> /\ rpcs[c][1].out = "ok"
       /\ (RemainingCreateFails(c) \/ MatchedUpdateFails(c)))
      => /\ pc[c] = "done"
         /\ result[c] \notin {"ok", "none"}
         /\ Len(rpcs[c]) = 1
         /\ remote = fetched[c]

\* a valid create next to one that cannot be converted: nothing was written
C24_Witness ==
  /\ args[1] = [toCreate |-> << EpA1, EpTwoTargets >>, toUpdate |-> << >>, toDelete |-> << >>]
  /\ rpcs[1] = << Rpc("backup_config_section", "ok") >>
  /\ pc[1] = "done"
  /\ result[1] = "convert_error"
  /\ remote.Hosts = << HostB >>

\* the records of hosts, as a set
HostSet(hosts) == { hosts[i] : i \in 1..Len(hosts) }
\* the host records the call asked to create
CreatedBy(c) == { endpointToHost(args[c].toCreate[j]) : j \in 1..Len(args[c].toCreate) }
\* call second read what call first wrote, and wrote last
Serialized(first, second) ==
  /\ fetched[second] = section[first]
  /\ remote = section[second]

\* C25: nothing coordinates two calls. A restore_config_section that
\* succeeds replaces the whole section by the caller's own, whatever the
\* store held by then; and when two calls that both returned nil were
\* serialized, every record either of them created is in the store. (That a
\* created record is lost when they overlap is the state C25_Witness.)
C25_NoCoordination ==
  /\ [][\A c \in ConcCalls :
          (Len(rpcs'[c]) = Len(rpcs[c]) + 1
             /\ rpcs'[c][Len(rpcs'[c])] = Rpc("restore_config_section", "ok"))
            => remote' = section[c]]_vars
  /\ [](\A first \in ConcCalls : \A second \in ConcCalls \ {first} :
          (Applied(first) /\ Applied(second) /\ Serialized(first, second))
            => (CreatedBy(first) \cup CreatedBy(second)) \subseteq HostSet(remote.Hosts))

\* both calls returned nil and the record the first one created is gone
C25_Witness ==
  /\ Applied(1)
  /\ Applied(2)
  /\ args[1].toCreate = << EpA1 >>
  /\ args[2].toCreate = << EpB >>
  /\ endpointToHost(EpA1) \notin HostSet(remote.Hosts)
  /\ endpointToHost(EpB) \in HostSet(remote.Hosts)

\* both calls returned nil one after the other and both records are there
C25_SerializedWitness ==
  /\ Applied(1)
  /\ Applied(2)
  /\ Serialized(1, 2)
  /\ args[1].toCreate = << EpA1 >>
  /\ args[2].toCreate = << EpB >>
  /\ { endpointToHost(EpA1), endpointToHost(EpB) } \subseteq HostSet(remote.Hosts)

====
